---- MODULE Spec2Model ----
(***************************************************************************)
(* Model of taxcalc/validation/csv_in.py: the script that reads puf.csv,   *)
(* drops DROP_VARS, randomizes every column outside SKIP_VARS, repairs the *)
(* accounting identities, draws a sample, renumbers RECID and writes       *)
(* xYY.csv.                                                                *)
(*                                                                         *)
(* Number representation.  A cell of a DataFrame is a float64 or an int64. *)
(* Every cell value is held as a count of HALF units (the value 3.5 is 7,  *)
(* the integer 4 is FromInt(4) = 8), so that Series.round(decimals=0) is a *)
(* real conversion (round half to even) and not the identity.  A noise     *)
(* factor is held in HUNDREDTHS (1.12 is 112), and so are ANNUAL_DRIFT and *)
(* NORM_STD_DEV.                                                           *)
(***************************************************************************)
EXTENDS Integers, Sequences, FiniteSets, TLC

VARIABLES
    DEBUG,            \* the module constant DEBUG (a build-time switch)
    USABLE_READ_VARS, \* Records.USABLE_READ_VARS, the schema registry
    puf_present,      \* os.path.isfile(pufcsv_filename)
    puf,              \* the content of puf.csv
    ARGS,             \* the parsed command line: YEAR, SEED, SIZE
    pc,               \* position of the script
    main_called,      \* whether main() has been invoked in this run
    xdf,              \* main's DataFrame xdf
    xxdf,             \* main's DataFrame xxdf
    pre,              \* xdf as it was before the last stage that changed it
    noise,            \* the rfactor drawn for each randomized column
    rng,              \* state of numpy's global generator
    stderr,           \* lines written to sys.stderr
    RCODE,            \* exit status of the process (-1 while running)
    outfile,          \* the xYY.csv file of the working directory
    entropy,          \* the state numpy's global generator starts in
    prev              \* result of an earlier run on the same inputs

vars == <<DEBUG, USABLE_READ_VARS, puf_present, puf, ARGS, pc, main_called,
          xdf, xxdf, pre, noise, rng, stderr, RCODE, outfile, entropy, prev>>

-----------------------------------------------------------------------------
(* Program constants *)

MAX_YEAR == 2023
MAX_SEED == 999999999
MAX_SIZE == 100000

\* 0.03 and 0.25, in hundredths
ANNUAL_DRIFT == 3
NORM_STD_DEV == 25

DROP_VARS ==
    IF DEBUG
    THEN {"filer"}
    ELSE {"filer", "s006", "cmbtp", "nu05", "nu13", "elderly_dependent",
          "e09700", "e09800", "e09900", "e11200"}

SKIP_VARS ==
    IF DEBUG
    THEN USABLE_READ_VARS
    ELSE {"RECID", "MARS", "DSI", "MIDR", "FLPDYR", "age_head", "age_spouse",
          "XTOT", "EIC", "n24", "f2441", "f6251"}

-----------------------------------------------------------------------------
(* Bounds of the model *)

\* largest number of records in puf.csv
MaxRows == 2

-----------------------------------------------------------------------------
(* Numbers *)

\* an integer as a cell value (half units)
FromInt(n) == 2 * n

Max(a, b) == IF a >= b THEN a ELSE b

\* num/den rounded to the nearest integer, ties to the even one (den > 0):
\* numpy's round
RoundDiv(num, den) ==
    LET q == num \div den
        r == num % den
    IN  IF 2 * r < den THEN q
        ELSE IF 2 * r > den THEN q + 1
        ELSE IF q % 2 = 0 THEN q ELSE q + 1

\* old.round(decimals=0).astype(np.int64) of one cell: the integer it holds
Round0(h) == RoundDiv(h, 2)

-----------------------------------------------------------------------------
(* DataFrames: an ordered list of column names, an ordered list of row     *)
(* labels (the index) and, per column, the value at each label.            *)

NoFrame == [columns |-> <<>>, index |-> <<>>, data |-> [c \in {} |-> 0]]

ColSet(df) == {df.columns[k] : k \in 1..Len(df.columns)}

Labels(df) == {df.index[k] : k \in 1..Len(df.index)}

Rows(df) == Len(df.index)

\* xdf[c] = ser : overwrite the column, or append it when it is new
SetColumn(df, c, ser) ==
    [columns |-> IF c \in ColSet(df) THEN df.columns ELSE Append(df.columns, c),
     index   |-> df.index,
     data    |-> [d \in ColSet(df) \cup {c} |-> IF d = c THEN ser ELSE df.data[d]]]

\* xdf[c] = scalar
SetScalar(df, c, v) == SetColumn(df, c, [i \in Labels(df) |-> v])

\* xdf.drop(var, axis=1, inplace=True) applied for every var of cs
DropColumns(df, cs) ==
    [columns |-> SelectSeq(df.columns, LAMBDA x : x \notin cs),
     index   |-> df.index,
     data    |-> [d \in ColSet(df) \ cs |-> df.data[d]]]

-----------------------------------------------------------------------------
(* The pseudo-random generator.  A generator is a deterministic function   *)
(* of its state: seeding sets the state from the seed, every draw advances *)
(* it.  The standard-normal deviates it yields are whole numbers here.     *)

SeedIgnored(s, g) == g

\* np.random.seed(s) on a generator in state g
Seed(s, g) == s % 16

Step(g) == (5 * g + 3) % 16

StdNormal(g) ==
    <<0, 1, -1, 2, -10, 0, 3, -2, 1, -4, 0, -1, 4, -10, 2, -3>>[g + 1]

RECURSIVE Normal(_, _, _, _)
\* np.random.normal(loc, scale, size) from state g: the draws (hundredths)
\* and the state left behind
Normal(g, loc, scale, size) ==
    IF size = 0
    THEN [vals |-> <<>>, g |-> g]
    ELSE LET rest == Normal(Step(g), loc, scale, size - 1)
         IN  [vals |-> <<loc + scale * StdNormal(g)>> \o rest.vals, g |-> rest.g]

RECURSIVE Shuffle(_, _)
\* RandomState.permutation of a list of labels, generator in state g
Shuffle(labels, g) ==
    IF labels = <<>>
    THEN <<>>
    ELSE LET k == (g % Len(labels)) + 1
         IN  <<labels[k]>> \o
             Shuffle(SubSeq(labels, 1, k - 1) \o SubSeq(labels, k + 1, Len(labels)),
                     Step(g))

-----------------------------------------------------------------------------
(* randomize_data *)

SkippedByFixedList(varname) ==
    varname \in {"RECID", "MARS", "DSI", "MIDR", "FLPDYR", "age_head", "age_spouse",
                 "XTOT", "EIC", "n24", "f2441", "f6251"}

SkippedButMARS(varname) == varname \in SKIP_VARS \ {"MARS"}

\* the test `varname in SKIP_VARS` of the loop
Skipped(varname) == varname \in SKIP_VARS

OldInt(old) == [i \in DOMAIN old |-> Round0(old[i])]

ColMin(ser) == CHOOSE m \in {ser[i] : i \in DOMAIN ser} :
                   \A i \in DOMAIN ser : m <= ser[i]

\* raw = oldint + addon.round(decimals=0), one cell
RawCell(oldint, rfactor) == oldint + RoundDiv(oldint * rfactor, 100)

RandomizeColumnAdditive(old, rfactor) ==
    [i \in DOMAIN old |-> FromInt(Max(Round0(old[i]) + RoundDiv(rfactor[i], 100), 0))]

RandomizeColumnNoClip(old, rfactor) ==
    [i \in DOMAIN old |-> FromInt(RawCell(Round0(old[i]), rfactor[i]))]

\* the body of the loop for one column: old values and the noise factor of
\* every row (the row labels are 1..num there) give the new values
RandomizeColumn(old, rfactor) ==
    LET oldint == OldInt(old)
        raw    == [i \in DOMAIN old |-> RawCell(oldint[i], rfactor[i])]
        new    == IF ColMin(oldint) < 0
                  THEN raw
                  ELSE [i \in DOMAIN old |-> Max(raw[i], 0)]
    IN  [i \in DOMAIN old |-> FromInt(new[i])]

RECURSIVE RandomizeLoop(_, _, _, _, _)
\* the loop over list(xdf): the frame, the generator state and the factors
\* drawn, after visiting the columns cols in order
RandomizeLoop(df, cols, g, nmean, drawn) ==
    IF cols = <<>>
    THEN [df |-> df, g |-> g, noise |-> drawn]
    ELSE LET varname == Head(cols)
         IN  IF Skipped(varname)
             THEN RandomizeLoop(df, Tail(cols), g, nmean, drawn)
             ELSE LET n == Normal(g, nmean, NORM_STD_DEV, Rows(df))
                      new == RandomizeColumn(df.data[varname], n.vals)
                  IN  RandomizeLoop(SetColumn(df, varname, new), Tail(cols), n.g,
                                    nmean,
                                    [c \in DOMAIN drawn \cup {varname} |->
                                        IF c = varname THEN n.vals ELSE drawn[c]])

randomize_data(df, taxyear, rnseed, g) ==
    LET x1    == SetScalar(df, "FLPDYR", FromInt(taxyear))
        nmean == 100 + ANNUAL_DRIFT * (taxyear - 2009)
    IN  RandomizeLoop(x1, x1.columns, Seed(rnseed, g), nmean, [c \in {} |-> <<>>])

-----------------------------------------------------------------------------
(* constrain_data *)

\* the columns constrain_data reads; xdf[c] of an absent column raises KeyError
ConstrainReads ==
    {"e00200p", "e00200s", "e00900p", "e00900s", "e02100p", "e02100s",
     "e00600", "e00650", "e01500", "e01700"}

Plus(a, b) == [i \in DOMAIN a |-> a[i] + b[i]]

Maximum(a, b) == [i \in DOMAIN a |-> Max(a[i], b[i])]

ApplyConstraintsNoMaximum(df) ==
    LET x1 == SetColumn(df, "e00200", Plus(df.data["e00200p"], df.data["e00200s"]))
        x2 == SetColumn(x1, "e00900", Plus(x1.data["e00900p"], x1.data["e00900s"]))
    IN  SetColumn(x2, "e02100", Plus(x2.data["e02100p"], x2.data["e02100s"]))

\* the five assignments of constrain_data
ApplyConstraints(df) ==
    LET x1 == SetColumn(df, "e00200", Plus(df.data["e00200p"], df.data["e00200s"]))
        x2 == SetColumn(x1, "e00900", Plus(x1.data["e00900p"], x1.data["e00900s"]))
        x3 == SetColumn(x2, "e02100", Plus(x2.data["e02100p"], x2.data["e02100s"]))
        x4 == SetColumn(x3, "e00600", Maximum(x3.data["e00600"], x3.data["e00650"]))
    IN  SetColumn(x4, "e01500", Maximum(x4.data["e01500"], x4.data["e01700"]))

\* the frame constrain_data leaves, when every column it reads is there
constrain_data(df) == IF DEBUG THEN df ELSE ApplyConstraints(df)

-----------------------------------------------------------------------------
(* sampling and renumbering *)

SampleSizeAlwaysAll(df, ssize) == Rows(df)

\* sample_size of main
SampleSize(df, ssize) == IF DEBUG THEN Rows(df) ELSE ssize

\* xdf.sample(n=n, random_state=seed), n <= Rows(df): a generator of its own,
\* seeded with seed, permutes the labels; the first n are kept, in that order
sample(df, n, seed) ==
    LET labels == SubSeq(Shuffle(df.index, Seed(seed, 0)), 1, n)
    IN  [columns |-> df.columns,
         index   |-> labels,
         data    |-> [c \in ColSet(df) |->
                        [i \in {labels[k] : k \in 1..n} |-> df.data[c][i]]]]

RecidListZeroBased(n) == [k \in 1..n |-> k - 1]

\* [rid + 1 for rid in range(sample_size)]
RecidList(n) == [k \in 1..n |-> k]

\* xxdf['RECID'] = list : the k-th row of the frame takes the k-th element
SetRecid(df, list) ==
    SetColumn(df, "RECID",
              [i \in Labels(df) |->
                  FromInt(list[CHOOSE k \in 1..Rows(df) : df.index[k] = i])])

-----------------------------------------------------------------------------
(* files and messages *)

NoFile == [exists |-> FALSE, name |-> 0, header |-> <<>>, rows |-> <<>>]

\* xxdf.to_csv('x{}.csv'.format(taxyear % 100), index=False)
to_csv(df, taxyear) ==
    [exists |-> TRUE,
     name   |-> taxyear % 100,
     header |-> df.columns,
     rows   |-> [k \in 1..Rows(df) |->
                    [j \in 1..Len(df.columns) |-> df.data[df.columns[j]][df.index[k]]]]]

Line(msg, arg, val) == [msg |-> msg, arg |-> arg, val |-> val]

YearOutOfRangeOffByOne(year) == year <= 2013 \/ year > MAX_YEAR

YearOutOfRange(year) == year < 2013 \/ year > MAX_YEAR

SeedOutOfRange(seed) == seed < 1 \/ seed > MAX_SEED

SizeOutOfRange(size) == size < 1 \/ size > MAX_SIZE

DropRaisesNever(df, var) == FALSE

\* xdf.drop(var, ...) raises KeyError when var is no column of xdf
DropRaises(df, var) == var \notin ColSet(df)

\* the test `var not in Records.USABLE_READ_VARS`
AlreadyDropped(var) == var \notin USABLE_READ_VARS

NoRun == [ran |-> FALSE, RCODE |-> -1, outfile |-> NoFile, entropy |-> 0]

-----------------------------------------------------------------------------
(* Inputs *)

PufColumns ==
    <<"RECID", "MARS", "DSI", "MIDR", "FLPDYR", "age_head", "age_spouse", "XTOT",
      "EIC", "n24", "f2441", "f6251", "filer", "s006", "cmbtp", "nu05", "nu13",
      "elderly_dependent", "e09700", "e09800", "e09900", "e11200",
      "e00200", "e00200p", "e00200s", "e00300", "e00600", "e00650",
      "e00900", "e00900p", "e00900s", "e01500", "e01700",
      "e02100", "e02100p", "e02100s">>

PufNames == {PufColumns[k] : k \in 1..Len(PufColumns)}

\* a record of puf.csv: the cells given, every other cell zero (half units)
Record(cells) == [c \in PufNames |-> IF c \in DOMAIN cells THEN cells[c] ELSE 0]

RecordPool ==
    { Record([RECID |-> 14, MARS |-> 2, FLPDYR |-> 4018, age_head |-> 80, XTOT |-> 2,
              filer |-> 2, s006 |-> 200, cmbtp |-> 3, e09700 |-> 4,
              e00200 |-> 20, e00200p |-> 14, e00200s |-> 6, e00300 |-> 14,
              e00600 |-> 6, e00650 |-> 10, e00900 |-> -100, e00900p |-> -100,
              e01500 |-> 16, e01700 |-> 14, e02100 |-> 5, e02100p |-> 5,
              e02100s |-> 14]),
      Record([RECID |-> 18, MARS |-> 4, FLPDYR |-> 4018, age_head |-> 120,
              age_spouse |-> 118, XTOT |-> 4, n24 |-> 2, filer |-> 2, s006 |-> 150,
              nu05 |-> 2, e00200 |-> 14, e00200p |-> 7, e00200s |-> 7, e00300 |-> -1,
              e00600 |-> 16, e00650 |-> 4, e00900s |-> -1, e01700 |-> 14,
              e02100 |-> 9, e02100p |-> 1, e02100s |-> 12]),
      Record([RECID |-> 2, MARS |-> 2, FLPDYR |-> 4018, filer |-> 2, e00300 |-> 3,
              e00650 |-> 1, e00900p |-> 6, e01500 |-> 11, e02100p |-> 40]) }

\* the rows of puf.csv: up to MaxRows records of the pool, in any order
RowChoices == UNION {[1..n -> RecordPool] : n \in 1..MaxRows}

\* puf.csv as read by pd.read_csv: the columns of PufColumns but those missing
Frame(missing, rows) ==
    [columns |-> SelectSeq(PufColumns, LAMBDA c : c \notin missing),
     index   |-> [k \in 1..Len(rows) |-> k],
     data    |-> [c \in PufNames \ missing |-> [i \in 1..Len(rows) |-> rows[i][c]]]]

\* a column that puf.csv may lack
MissingChoices ==
    {{}, {"MARS"}, {"e09700"}, {"filer"}, {"e00200"}, {"e00650"}, {"FLPDYR"}, {"RECID"}}

\* a name of puf.csv the registry may not know
UnknownChoices == {{}, {"e11200"}, {"filer"}, {"e00300"}}

ArgChoices ==
    [YEAR : {0, 2012, 2013, MAX_YEAR, MAX_YEAR + 1},
     SEED : {0, 1, MAX_SEED, MAX_SEED + 1},
     SIZE : (0..(MaxRows + 1)) \cup {MAX_SIZE, MAX_SIZE + 1}]

EntropyStates == {3, 11}

InRange(args) ==
    /\ 2013 <= args.YEAR /\ args.YEAR <= MAX_YEAR
    /\ 1 <= args.SEED /\ args.SEED <= MAX_SEED
    /\ 1 <= args.SIZE /\ args.SIZE <= MAX_SIZE

NominalRows == [k \in 1..1 |-> CHOOSE r \in RecordPool : r["RECID"] = 14]

-----------------------------------------------------------------------------
(* State machine *)

Init ==
    /\ DEBUG \in BOOLEAN
    /\ ARGS \in ArgChoices
    /\ puf_present \in BOOLEAN
    /\ entropy \in EntropyStates
    /\ \E missing \in MissingChoices, unknown \in UnknownChoices, rows \in RowChoices :
          \* one deviation of the environment at a time; a run that ends before
          \* it reads puf.csv is given one dataset only
          /\ missing = {} \/ unknown = {}
          /\ (~InRange(ARGS) \/ ~puf_present) =>
                 missing = {} /\ unknown = {} /\ rows = NominalRows
          /\ puf = Frame(missing, rows)
          /\ USABLE_READ_VARS = PufNames \ unknown
    /\ pc = "start"
    /\ main_called = FALSE
    /\ xdf = NoFrame
    /\ xxdf = NoFrame
    /\ pre = NoFrame
    /\ noise = [c \in {} |-> <<>>]
    /\ rng = entropy
    /\ stderr = <<>>
    /\ RCODE = -1
    /\ outfile = NoFile
    /\ prev = NoRun

inputs == <<DEBUG, USABLE_READ_VARS, puf_present, puf, ARGS>>

\* an uncaught exception: the interpreter prints the traceback and exits 1
Uncaught(exception, arg) ==
    /\ stderr' = Append(stderr, Line(exception, arg, 0))
    /\ RCODE' = 1
    /\ pc' = "exit"

\* the __main__ block: argument checks, then main or the usage line
CheckArgs ==
    /\ pc = "start"
    /\ LET e1 == IF YearOutOfRange(ARGS.YEAR)
                 THEN <<Line("ERROR: YEAR not in range", "YEAR", ARGS.YEAR)>> ELSE <<>>
           e2 == IF SeedOutOfRange(ARGS.SEED)
                 THEN <<Line("ERROR: SEED not in range", "SEED", ARGS.SEED)>> ELSE <<>>
           e3 == IF SizeOutOfRange(ARGS.SIZE)
                 THEN <<Line("ERROR: SIZE not in range", "SIZE", ARGS.SIZE)>> ELSE <<>>
           ARGS_ERROR == e1 \o e2 \o e3 # <<>>
       IN  IF ARGS_ERROR
           THEN /\ stderr' = stderr \o e1 \o e2 \o e3 \o <<Line("USAGE", "", 0)>>
                /\ RCODE' = 1
                /\ pc' = "exit"
                /\ UNCHANGED main_called
           ELSE /\ main_called' = TRUE
                /\ pc' = "read"
                /\ UNCHANGED <<stderr, RCODE>>
    /\ UNCHANGED <<inputs, xdf, xxdf, pre, noise, rng, outfile, entropy, prev>>

\* main: the puf.csv file is looked for and read
ReadPuf ==
    /\ pc = "read"
    /\ IF ~puf_present
       THEN /\ stderr' = Append(stderr, Line("ERROR: puf.csv file not found", "", 0))
            /\ RCODE' = 1
            /\ pc' = "exit"
            /\ UNCHANGED xdf
       ELSE /\ xdf' = puf
            /\ pc' = "drop"
            /\ UNCHANGED <<stderr, RCODE>>
    /\ UNCHANGED <<inputs, main_called, xxdf, pre, noise, rng, outfile, entropy, prev>>

\* main: the loop over DROP_VARS.  A set is iterated in no fixed order, so
\* any offending name may be the first one met; it ends the run.
DropVars ==
    /\ pc = "drop"
    /\ LET offending == {var \in DROP_VARS : AlreadyDropped(var) \/ DropRaises(xdf, var)}
       IN  IF offending = {}
           THEN /\ xdf' = DropColumns(xdf, DROP_VARS)
                /\ pc' = "randomize"
                /\ UNCHANGED <<stderr, RCODE>>
           ELSE /\ \E var \in offending :
                      IF AlreadyDropped(var)
                      THEN /\ stderr' = Append(stderr,
                                   Line("ERROR: variable already dropped", var, 0))
                           /\ RCODE' = 1
                           /\ pc' = "exit"
                      ELSE Uncaught("KeyError", var)
                /\ xdf' = NoFrame
    /\ UNCHANGED <<inputs, main_called, xxdf, pre, noise, rng, outfile, entropy, prev>>

\* main: randomize_data(xdf, taxyear, rnseed)
Randomize ==
    /\ pc = "randomize"
    /\ LET r == randomize_data(xdf, ARGS.YEAR, ARGS.SEED, rng)
       IN  /\ xdf' = r.df
           /\ rng' = r.g
           /\ noise' = r.noise
    /\ pre' = xdf
    /\ pc' = "constrain"
    /\ UNCHANGED <<inputs, main_called, xxdf, stderr, RCODE, outfile, entropy, prev>>

\* main: constrain_data(xdf)
Constrain ==
    /\ pc = "constrain"
    /\ IF ~DEBUG /\ ~(ConstrainReads \subseteq ColSet(xdf))
       THEN /\ Uncaught("KeyError", "constrain_data")
            /\ xdf' = NoFrame
            /\ UNCHANGED pre
       ELSE /\ xdf' = constrain_data(xdf)
            /\ pre' = xdf
            /\ pc' = "sample"
            /\ UNCHANGED <<stderr, RCODE>>
    /\ UNCHANGED <<inputs, main_called, xxdf, noise, rng, outfile, entropy, prev>>

\* main: the sample is drawn (or, in debug mode, the whole frame kept) and
\* RECID renumbered; in debug mode xxdf is xdf itself
Sample ==
    /\ pc = "sample"
    /\ LET sample_size == SampleSize(xdf, ARGS.SIZE)
       IN  IF ~DEBUG /\ sample_size > Rows(xdf)
           THEN /\ Uncaught("ValueError", "sample")
                /\ xdf' = NoFrame
                /\ UNCHANGED <<xxdf, pre>>
           ELSE /\ xxdf' = SetRecid(IF DEBUG THEN xdf
                                    ELSE sample(xdf, sample_size, ARGS.SEED),
                                    RecidList(sample_size))
                /\ xdf' = IF DEBUG THEN xxdf' ELSE xdf
                /\ pre' = xdf
                /\ pc' = "write"
                /\ UNCHANGED <<stderr, RCODE>>
    /\ UNCHANGED <<inputs, main_called, noise, rng, outfile, entropy, prev>>

\* main: the file is written and 0 returned
WriteCsv ==
    /\ pc = "write"
    /\ outfile' = to_csv(xxdf, ARGS.YEAR)
    /\ RCODE' = 0
    /\ pc' = "exit"
    /\ UNCHANGED <<inputs, main_called, xdf, xxdf, pre, noise, rng, stderr, entropy, prev>>

\* the script is run once more on the same inputs, in an empty directory and
\* with the generator of the new process in another state
Rerun ==
    /\ pc = "exit"
    /\ ~prev.ran
    /\ prev' = [ran |-> TRUE, RCODE |-> RCODE, outfile |-> outfile, entropy |-> entropy]
    /\ entropy' \in EntropyStates \ {entropy}
    /\ rng' = entropy'
    /\ pc' = "start"
    /\ main_called' = FALSE
    /\ xdf' = NoFrame
    /\ xxdf' = NoFrame
    /\ pre' = NoFrame
    /\ noise' = [c \in {} |-> <<>>]
    /\ stderr' = <<>>
    /\ RCODE' = -1
    /\ outfile' = NoFile
    /\ UNCHANGED inputs

Next ==
    \/ CheckArgs
    \/ ReadPuf
    \/ DropVars
    \/ Randomize
    \/ Constrain
    \/ Sample
    \/ WriteCsv
    \/ Rerun

Spec == Init /\ [][Next]_vars

-----------------------------------------------------------------------------
(* Properties *)

ColPos(header, c) == CHOOSE j \in 1..Len(header) : header[j] = c

RECURSIVE SumTo(_, _)
SumTo(f, n) == IF n = 0 THEN 0 ELSE f[n] + SumTo(f, n - 1)

\* sum of column c over the rows of a written file
FileSum(file, c) ==
    LET j == ColPos(file.header, c)
    IN  SumTo([k \in 1..Len(file.rows) |-> file.rows[k][j]], Len(file.rows))

\* sum of column c of a frame whose labels are 1..n
FrameSum(df, c) == SumTo(df.data[c], Rows(df))

\* the cell randomize_data would leave without the clamp at zero
Unclamped(c, i) == FromInt(RawCell(Round0(pre.data[c][i]), noise[c][i]))

\* C1 as stated: once randomize_data has run, every SKIP_VARS column holds in
\* every row the value it held before.
C1_SkipColumnsUnchanged ==
    pc = "constrain" =>
        \A c \in SKIP_VARS \cap ColSet(pre) : xdf.data[c] = pre.data[c]

\* C1 amended: once randomize_data has run, every SKIP_VARS column other than
\* FLPDYR holds in every row the value it held before, and FLPDYR holds the
\* tax year in every row.
C1_SkipColumnsUnchangedButFLPDYR ==
    pc = "constrain" =>
        /\ \A c \in (SKIP_VARS \ {"FLPDYR"}) \cap ColSet(pre) :
               xdf.data[c] = pre.data[c]
        /\ \A i \in Labels(xdf) : xdf.data["FLPDYR"][i] = FromInt(ARGS.YEAR)

\* C1 witness: a skip column with nonzero values went through randomize_data while another column changed.
C1_Witness ==
    /\ pc = "constrain"
    /\ ~DEBUG
    /\ "MARS" \in ColSet(pre)
    /\ \E i \in Labels(pre) : pre.data["MARS"][i] # 0
    /\ \E c \in ColSet(pre) \ SKIP_VARS : xdf.data[c] # pre.data[c]

\* the names the configuration refers to
ConfiguredNames ==
    DROP_VARS \cup SKIP_VARS \cup ConstrainReads \cup {"e00200", "e00900", "e02100"}

C3_MainIffArgsInRange ==
    pc # "start" =>
        /\ main_called <=> (/\ 2013 <= ARGS.YEAR /\ ARGS.YEAR <= 2023
                            /\ 1 <= ARGS.SEED /\ ARGS.SEED <= 999999999
                            /\ 1 <= ARGS.SIZE /\ ARGS.SIZE <= 100000)
        /\ ~main_called =>
              /\ pc = "exit"
              /\ RCODE = 1
              /\ ~outfile.exists
              /\ stderr[Len(stderr)] = Line("USAGE", "", 0)
              /\ Len(stderr) = 1
                   + (IF ARGS.YEAR < 2013 \/ ARGS.YEAR > 2023 THEN 1 ELSE 0)
                   + (IF ARGS.SEED < 1 \/ ARGS.SEED > 999999999 THEN 1 ELSE 0)
                   + (IF ARGS.SIZE < 1 \/ ARGS.SIZE > 100000 THEN 1 ELSE 0)
              /\ (ARGS.YEAR < 2013 \/ ARGS.YEAR > 2023) <=>
                     \E k \in 1..Len(stderr) :
                         stderr[k].arg = "YEAR" /\ stderr[k].val = ARGS.YEAR
              /\ (ARGS.SEED < 1 \/ ARGS.SEED > 999999999) <=>
                     \E k \in 1..Len(stderr) :
                         stderr[k].arg = "SEED" /\ stderr[k].val = ARGS.SEED
              /\ (ARGS.SIZE < 1 \/ ARGS.SIZE > 100000) <=>
                     \E k \in 1..Len(stderr) :
                         stderr[k].arg = "SIZE" /\ stderr[k].val = ARGS.SIZE

\* C3 witness: a run with YEAR and SIZE out of range and SEED in range has ended with two error lines and the usage line.
C3_Witness ==
    /\ pc = "exit"
    /\ ~main_called
    /\ ARGS.YEAR = 2012
    /\ ARGS.SEED = 1
    /\ ARGS.SIZE = MAX_SIZE + 1
    /\ Len(stderr) = 3

\* C4: with debug off, once constrain_data has run, every row satisfies the
\* three sum identities and the two dominance relations.
C4_IdentitiesRestored ==
    (~DEBUG /\ pc = "sample") =>
        \A i \in Labels(xdf) :
            /\ xdf.data["e00200"][i] = xdf.data["e00200p"][i] + xdf.data["e00200s"][i]
            /\ xdf.data["e00900"][i] = xdf.data["e00900p"][i] + xdf.data["e00900s"][i]
            /\ xdf.data["e02100"][i] = xdf.data["e02100p"][i] + xdf.data["e02100s"][i]
            /\ xdf.data["e00600"][i] >= xdf.data["e00650"][i]
            /\ xdf.data["e01500"][i] >= xdf.data["e01700"][i]

\* C4 witness: constrain_data has repaired rows that broke a sum identity and both dominance relations.
C4_Witness ==
    /\ ~DEBUG
    /\ pc = "sample"
    /\ "e00200" \in ColSet(pre)
    /\ \E i \in Labels(pre) :
          /\ pre.data["e00200"][i] # pre.data["e00200p"][i] + pre.data["e00200s"][i]
          /\ pre.data["e00600"][i] < pre.data["e00650"][i]
    /\ \E i \in Labels(pre) : pre.data["e01500"][i] < pre.data["e01700"][i]

\* C5: once randomize_data has run, every cell of a randomized column that
\* held zero before holds zero.
C5_ZeroStaysZero ==
    pc = "constrain" =>
        \A c \in ColSet(pre) \ SKIP_VARS : \A i \in Labels(pre) :
            pre.data[c][i] = 0 => xdf.data[c][i] = 0

\* C5 witness: a randomized column held a zero cell beside a cell that the noise changed.
C5_Witness ==
    /\ pc = "constrain"
    /\ \E c \in ColSet(pre) \ SKIP_VARS : \E i, j \in Labels(pre) :
          /\ pre.data[c][i] = 0
          /\ pre.data[c][j] # 0
          /\ xdf.data[c][j] # pre.data[c][j]

\* C6 as stated: a randomized column whose minimum was >= 0 holds no negative
\* value after randomize_data, and a column whose minimum was negative is
\* left unclamped in every row.
C6_ClampByOriginalMinimum ==
    pc = "constrain" =>
        \A c \in ColSet(pre) \ SKIP_VARS :
            IF ColMin(pre.data[c]) >= 0
            THEN \A i \in Labels(pre) : xdf.data[c][i] >= 0
            ELSE \A i \in Labels(pre) : xdf.data[c][i] = Unclamped(c, i)

\* C6 amended: a randomized column whose minimum was >= 0 holds no negative
\* value after randomize_data; the clamp is decided per column from the
\* minimum of the ROUNDED column: when that is negative every row is left
\* unclamped, otherwise every row is clamped at zero.
C6_ClampByRoundedMinimum ==
    pc = "constrain" =>
        \A c \in ColSet(pre) \ SKIP_VARS :
            /\ ColMin(pre.data[c]) >= 0 => \A i \in Labels(pre) : xdf.data[c][i] >= 0
            /\ IF ColMin(OldInt(pre.data[c])) < 0
               THEN \A i \in Labels(pre) : xdf.data[c][i] = Unclamped(c, i)
               ELSE \A i \in Labels(pre) : xdf.data[c][i] = Max(Unclamped(c, i), 0)

\* C6 witness: a cell of a column with a non-negative minimum was driven below zero by the noise and clamped.
C6_Witness ==
    /\ pc = "constrain"
    /\ \E c \in ColSet(pre) \ SKIP_VARS :
          /\ ColMin(pre.data[c]) >= 0
          /\ \E i \in Labels(pre) : Unclamped(c, i) < 0 /\ xdf.data[c][i] = 0

\* C7: the RECID column of a written file is 1, 2, ..., n in row order, n
\* being SIZE with debug off and the full row count with debug on, and the
\* rows are n different rows of the repaired dataset.
C7_RecidContiguous ==
    outfile.exists =>
        LET n == IF DEBUG THEN Rows(puf) ELSE ARGS.SIZE
            j == ColPos(outfile.header, "RECID")
        IN  /\ Len(outfile.rows) = n
            /\ \A k \in 1..n : outfile.rows[k][j] = FromInt(k)
            /\ Cardinality(Labels(xxdf)) = n
            /\ Labels(xxdf) \subseteq Labels(puf)
            /\ DEBUG => xxdf.index = puf.index
            /\ \A k \in 1..n : \A c \in ColSet(xxdf) \ {"RECID"} :
                   outfile.rows[k][ColPos(outfile.header, c)] = xdf.data[c][xxdf.index[k]]

\* C7 witness: a proper sub-sample was written whose first row is not the first record and had another RECID.
C7_Witness ==
    /\ outfile.exists
    /\ ~DEBUG
    /\ ARGS.SIZE < Rows(puf)
    /\ "RECID" \in ColSet(puf)
    /\ xxdf.index[1] # 1
    /\ puf.data["RECID"][xxdf.index[1]] # FromInt(1)

\* C8 as stated: a run of main with SIZE above the row count of the dataset
\* ends non-zero without an output file; a file exists only after a run
\* that returned 0.
C8_OversizedSampleFails ==
    /\ (pc = "exit" /\ main_called /\ puf_present /\ ARGS.SIZE > Rows(puf))
           => (RCODE # 0 /\ RCODE # -1 /\ ~outfile.exists)
    /\ outfile.exists => (pc = "exit" /\ RCODE = 0)

\* C8 amended: with debug off, a run of main with SIZE above the row count of
\* the dataset ends with exit status 1 and no output file, on the ValueError
\* of sample when nothing failed before; a file exists only after a run that
\* returned 0.
C8_OversizedSampleFailsUnlessDebug ==
    /\ (~DEBUG /\ pc = "exit" /\ main_called /\ puf_present /\ ARGS.SIZE > Rows(puf))
           => /\ RCODE = 1
              /\ ~outfile.exists
              /\ stderr # <<>>
              /\ (/\ DROP_VARS \subseteq ColSet(puf) \cap USABLE_READ_VARS
                  /\ ConstrainReads \subseteq ColSet(puf))
                     => stderr = <<Line("ValueError", "sample", 0)>>
    /\ outfile.exists => (pc = "exit" /\ RCODE = 0)

\* C8 witness: with debug off, a run asking for one more row than the dataset has ended on the ValueError of sample.
C8_Witness ==
    /\ ~DEBUG
    /\ pc = "exit"
    /\ ARGS.SIZE = Rows(puf) + 1
    /\ stderr = <<Line("ValueError", "sample", 0)>>
    /\ RCODE = 1

C10_RerunSameOutput ==
    (prev.ran /\ pc = "exit") => (outfile = prev.outfile /\ RCODE = prev.RCODE)

\* C10 witness: a second run from another generator state has written a randomized file of two or more rows.
C10_Witness ==
    /\ prev.ran
    /\ pc = "exit"
    /\ ~DEBUG
    /\ outfile.exists
    /\ entropy # prev.entropy
    /\ Len(outfile.rows) >= 2
    /\ \E c \in ColSet(pre) \ SKIP_VARS : \E i \in Labels(pre) :
           xdf.data[c][i] # puf.data[c][i]

====
